---- MODULE Spec2Model ----
(***************************************************************************)
(* psycopg3/connection.py: BaseConnection, Connection (blocking, guarded   *)
(* by threading.Lock) and AsyncConnection (cooperative, guarded by         *)
(* asyncio.Lock) over one PGconn handle.                                   *)
(*                                                                         *)
(* A caller (thread or task) is a process p.  A guarded method is two      *)
(* atomic steps: Enter (acquire the lock and run the body up to the wait   *)
(* on the handle, or to its end) and Finish (the wait returns or raises,   *)
(* the rest of the body runs, the lock is released).  The handle (pq,      *)
(* generators, waiting) is not part of connection.py: it is modelled from  *)
(* the interface the specification gives it.                               *)
(***************************************************************************)
EXTENDS Integers, Sequences, FiniteSets, TLC

\* ---------------------------------------------------------------- bounds
\* longest list of results one execute() returns
MaxResults == 2
\* most handlers registered in one registry
MaxHandlers == 2
\* most notifications in one batch of the notifies stream
MaxBatch == 1
\* most notifications in one batch when the stream is checked by itself
MaxStream == 2

\* ------------------------------------------------------------- constants
Procs == {"t1", "t2"}
\* the lock's holder when nobody holds it
NoProc == "free"
Variants == {"blocking", "cooperative"}

IDLE == "IDLE"
ACTIVE == "ACTIVE"
INTRANS == "INTRANS"
INERROR == "INERROR"
UNKNOWN == "UNKNOWN"
TransactionStatus == {IDLE, ACTIVE, INTRANS, INERROR, UNKNOWN}

OK == "OK"
BAD == "BAD"

COMMAND_OK == "COMMAND_OK"
TUPLES_OK == "TUPLES_OK"
FATAL_ERROR == "FATAL_ERROR"
ExecStatus == {COMMAND_OK, TUPLES_OK, FATAL_ERROR}

\* parameter_status(b"client_encoding"): None is the empty string
NoEnc == ""
ServerEncodings == {"UTF8", "LATIN1", "EUC_TW"}

\* pq.py_codecs: the server encodings that have a Python codec
py_codecs == [enc \in {"UTF8", "LATIN1"} |->
                 IF enc = "UTF8" THEN "utf-8" ELSE "iso8859-1"]

\* outcomes of a call
Returned == "ok"
OperationalError == "OperationalError"
ProgrammingError == "ProgrammingError"
NotSupportedError == "NotSupportedError"
AttributeError == "AttributeError"
ValueError == "ValueError"
HandleError == "HandleError"
HandlerError == "HandlerError"
UnicodeDecodeError == "UnicodeDecodeError"
CancelledError == "CancelledError"

\* handlers that can be registered
Handlers == {"A", "B"}

\* raw texts a notification can carry: "A", e-acute in latin1, e-acute in utf-8
RawTexts == {<<65>>, <<233>>, <<195, 169>>}

\* ----------------------------------------------------------- bytes.decode
\* bytes.decode("utf-8") for sequences of one- and two-byte characters;
\* <<-1>> stands for UnicodeDecodeError
DecodeFailed == <<-1>>

RECURSIVE decode_utf8(_)
decode_utf8(bs) ==
    IF bs = <<>> THEN <<>>
    ELSE IF Head(bs) < 128
         THEN LET rest == decode_utf8(Tail(bs))
              IN  IF rest = DecodeFailed THEN DecodeFailed
                  ELSE <<Head(bs)>> \o rest
    ELSE IF Head(bs) >= 194 /\ Head(bs) < 224 /\ Len(bs) >= 2
            /\ bs[2] >= 128 /\ bs[2] < 192
         THEN LET rest == decode_utf8(Tail(Tail(bs)))
              IN  IF rest = DecodeFailed THEN DecodeFailed
                  ELSE <<(Head(bs) - 192) * 64 + (bs[2] - 128)>> \o rest
    ELSE DecodeFailed

\* bytes.decode("iso8859-1"): every byte is its own code point
decode_latin1(bs) == bs

decode(bs, codec) ==
    IF codec = "utf-8" THEN decode_utf8(bs) ELSE decode_latin1(bs)

\* Notify(pgn.relname.decode(enc), pgn.extra.decode(enc), pgn.be_pid):
\* the record, or exc set when a decode raises
Notify(pgn, enc) ==
    LET channel == decode(pgn.relname, enc)
        payload == decode(pgn.extra, enc)
    IN  IF channel = DecodeFailed \/ payload = DecodeFailed
        THEN [exc |-> UnicodeDecodeError, channel |-> <<>>, payload |-> <<>>,
              pid |-> 0]
        ELSE [exc |-> Returned, channel |-> channel, payload |-> payload,
              pid |-> pgn.be_pid]

\* The notifications the server can send with the payloads raws
PGnotifies(raws) == [relname : {<<65>>}, extra : raws, be_pid : {123}]

\* ------------------------------------------------------------------ state
VARIABLES
    variant,             \* Connection or AsyncConnection
    status,              \* pgconn.status
    transaction_status,  \* pgconn.transaction_status
    client_encoding,     \* pgconn.parameter_status(b"client_encoding")
    inflight,            \* the command the handle is executing
    released,            \* the times the handle's connection was released
    autocommit,          \* self._autocommit
    pgenc,               \* self._pgenc
    pyenc,               \* self._pyenc
    notice_handlers,     \* self._notice_handlers
    notify_handlers,     \* self._notify_handlers
    lock,                \* self.lock: its holder
    pc,                  \* where each caller is
    op,                  \* the method each caller is in
    batch,               \* each notifies generator's records still to yield
    done,                \* the call that ended in the last step, and how
    raisers,             \* the registered callbacks that raise
    dispatched,          \* the callback dispatch of the last step
    produced             \* the Notify built in the last step

conn_vars == <<autocommit, pgenc, pyenc, notice_handlers, notify_handlers>>
pgconn_vars ==
    <<status, transaction_status, client_encoding, inflight, released>>
proc_vars == <<pc, op, batch>>
obs_vars == <<dispatched, produced>>
fixed == <<variant, raisers>>
vars == <<fixed, conn_vars, pgconn_vars, lock, proc_vars, done, obs_vars>>

NoCmd == [cmd |-> "none", arg |-> NoEnc, ts0 |-> IDLE]
NoOp == [name |-> "none", arg |-> "none"]
NoDone == [by |-> NoProc, name |-> "none", arg |-> "none", exc |-> Returned,
           nsent |-> 0, n |-> 0, last |-> "none", rv |-> "none",
           st0 |-> OK, results |-> <<>>]
NoDispatch == [kind |-> "none", registered |-> <<>>, calls |-> <<>>,
               raised |-> FALSE, logged |-> 0]
NoNotify == [kind |-> "none", relname |-> <<>>, extra |-> <<>>,
             srv |-> NoEnc, exc |-> Returned, channel |-> <<>>,
             payload |-> <<>>, pid |-> 0]

\* BaseConnection.__init__ after a successful connect(): the handle is OK
\* and idle, the server has reported a client_encoding, the cache is empty
InitConn(raising) ==
    /\ variant \in Variants
    /\ status = OK
    /\ transaction_status = IDLE
    /\ client_encoding \in ServerEncodings
    /\ inflight = NoCmd
    /\ released = 0
    /\ autocommit \in BOOLEAN
    /\ pgenc = NoEnc
    /\ pyenc = "utf-8"
    /\ notice_handlers = <<>>
    /\ notify_handlers = <<>>
    /\ lock = NoProc
    /\ pc = [p \in Procs |-> "idle"]
    /\ op = [p \in Procs |-> NoOp]
    /\ batch = [p \in Procs |-> <<>>]
    /\ done = NoDone
    /\ raisers \in raising
    /\ dispatched = NoDispatch
    /\ produced = NoNotify

\* ------------------------------------------------------------- the handle
\* The lists of results execute() can return
ResultLists == UNION {[1..n -> ExecStatus] : n \in 1..MaxResults}

\* The batches wait(notifies(pgconn)) can return
BatchesUpTo(raws, max) == UNION {[1..n -> PGnotifies(raws)] : n \in 0..max}

Batches(raws) == BatchesUpTo(raws, MaxBatch)

Last(results) == results[Len(results)]

\* The status the server gives a command when it succeeds
SuccessOf(cmd) == IF cmd = "set_config" THEN TUPLES_OK ELSE COMMAND_OK

\* The transaction status the server reports once a command has completed,
\* from the status ts0 it was sent in
ServerStatusAfter(cmd, ts0, results) ==
    IF Last(results) = SuccessOf(cmd)
    THEN CASE cmd = "begin" -> {INTRANS}
           [] cmd \in {"commit", "rollback"} -> {IDLE}
           [] OTHER -> {ts0}
    ELSE IF ts0 = IDLE THEN {IDLE}
    ELSE IF cmd = "set_config" THEN {INERROR}
    ELSE {INERROR, IDLE}

\* The client_encoding the server reports once a command has completed
ServerEncodingAfter(cmd, arg, results, enc) ==
    IF cmd = "set_config" /\ Last(results) = TUPLES_OK THEN arg ELSE enc

\* finish() as it would be if every call released the connection again
finish_again(st, n) == n + 1

\* finish(): the connection is released unless it already was; the times
\* it has been released afterwards
finish(st, n) == IF st = BAD THEN n ELSE n + 1

\* send_query / send_query_params: the handle takes a command when it is
\* connected and has no command in progress, and raises otherwise
HandleAccepts == status = OK /\ inflight.cmd = "none"

\* --------------------------------------------------- the code, as functions
\* _set_autocommit as it would be without the transaction status check
SetAutocommitUnchecked(ts, current, value) ==
    [exc |-> "ok", autocommit |-> value]

\* BaseConnection._set_autocommit, lines 118-124: the failure raised and
\* the value of _autocommit afterwards
BaseSetAutocommit(ts, current, value) ==
    IF ts # IDLE
    THEN [exc |-> ProgrammingError, autocommit |-> current]
    ELSE [exc |-> Returned, autocommit |-> value]

\* pyenc as it would be if an encoding without a codec fell back to utf-8
pyenc_defaulting(reported, cached_pgenc, cached_pyenc) ==
    IF cached_pgenc # reported /\ reported # NoEnc
    THEN IF reported \in DOMAIN py_codecs
         THEN [exc |-> "ok", rv |-> py_codecs[reported],
               pgenc |-> reported, pyenc |-> py_codecs[reported]]
         ELSE [exc |-> "ok", rv |-> "utf-8",
               pgenc |-> reported, pyenc |-> "utf-8"]
    ELSE [exc |-> "ok", rv |-> cached_pyenc,
          pgenc |-> reported, pyenc |-> cached_pyenc]

\* BaseConnection.pyenc, lines 135-146: the failure raised or the value
\* returned, and the cache afterwards
pyenc_property(reported, cached_pgenc, cached_pyenc) ==
    IF cached_pgenc # reported
    THEN IF reported # NoEnc
         THEN IF reported \in DOMAIN py_codecs
              THEN [exc |-> Returned, rv |-> py_codecs[reported],
                    pgenc |-> reported, pyenc |-> py_codecs[reported]]
              ELSE [exc |-> NotSupportedError, rv |-> "none",
                    pgenc |-> cached_pgenc, pyenc |-> cached_pyenc]
         ELSE [exc |-> Returned, rv |-> cached_pyenc,
               pgenc |-> reported, pyenc |-> cached_pyenc]
    ELSE [exc |-> Returned, rv |-> cached_pyenc,
          pgenc |-> cached_pgenc, pyenc |-> cached_pyenc]

\* _start_query as it would be without the autocommit check
BeginWheneverIdle(ac, ts) == ts = IDLE

\* _start_query, lines 274-278 and 397-401: whether begin is to be sent
StartQuerySendsBegin(ac, ts) == ~ac /\ ts = IDLE

\* _start_query, lines 281-286 and 404-409: (pgres,) = results, then the
\* status check
StartQueryCheck(results) ==
    IF Len(results) # 1 THEN ValueError
    ELSE IF results[1] # COMMAND_OK THEN OperationalError
    ELSE Returned

\* _exec_commit_rollback as it would be without the IDLE check
AlwaysSends(ts) == TRUE

\* _exec_commit_rollback, lines 300-302 and 421-423: whether the command
\* is to be sent
CommitRollbackSends(ts) == ts # IDLE

\* Connection._exec_commit_rollback, lines 305-310: results[-1]
BlockingCommitRollbackCheck(results) ==
    IF Last(results) # COMMAND_OK THEN OperationalError ELSE Returned

\* AsyncConnection._exec_commit_rollback, lines 426-431: (pgres,) = results
CooperativeCommitRollbackCheck(results) ==
    IF Len(results) # 1 THEN ValueError
    ELSE IF results[1] # COMMAND_OK THEN OperationalError
    ELSE Returned

CommitRollbackCheck(v, results) ==
    IF v = "blocking" THEN BlockingCommitRollbackCheck(results)
    ELSE CooperativeCommitRollbackCheck(results)

\* _set_client_encoding / set_client_encoding, lines 325-327 and 450-452:
\* (result,) = results, then error_from_result unless TUPLES_OK
SetClientEncodingCheck(results) ==
    IF Len(results) # 1 THEN ValueError
    ELSE IF results[1] # TUPLES_OK THEN "DatabaseError"
    ELSE Returned

\* The notice loop as it would be without its try/except
RECURSIVE NoticeLoopUncaught(_, _)
NoticeLoopUncaught(handlers, raising) ==
    IF handlers = <<>> THEN [calls |-> <<>>, raised |-> FALSE, logged |-> 0]
    ELSE IF Head(handlers) \in raising
         THEN [calls |-> <<Head(handlers)>>, raised |-> TRUE, logged |-> 0]
    ELSE LET rest == NoticeLoopUncaught(Tail(handlers), raising)
         IN  [calls |-> <<Head(handlers)>> \o rest.calls,
              raised |-> rest.raised, logged |-> 0]

\* _notice_handler, lines 179-185: the callbacks invoked, in order, and
\* whether a failure leaves the loop
RECURSIVE NoticeLoop(_, _)
NoticeLoop(handlers, raising) ==
    IF handlers = <<>> THEN [calls |-> <<>>, raised |-> FALSE, logged |-> 0]
    ELSE LET rest == NoticeLoop(Tail(handlers), raising)
         IN  [calls |-> <<Head(handlers)>> \o rest.calls,
              raised |-> rest.raised,
              logged |-> IF Head(handlers) \in raising
                         THEN rest.logged + 1 ELSE rest.logged]

\* _notify_handler, lines 212-213: the callbacks invoked, in order, and
\* whether a failure leaves the loop
RECURSIVE NotifyLoop(_, _)
NotifyLoop(handlers, raising) ==
    IF handlers = <<>> THEN [calls |-> <<>>, raised |-> FALSE, logged |-> 0]
    ELSE IF Head(handlers) \in raising
         THEN [calls |-> <<Head(handlers)>>, raised |-> TRUE, logged |-> 0]
    ELSE LET rest == NotifyLoop(Tail(handlers), raising)
         IN  [calls |-> <<Head(handlers)>> \o rest.calls,
              raised |-> rest.raised, logged |-> 0]

\* ---------------------------------------------------------------- callers
GuardedOps == {"commit", "rollback", "set_client_encoding", "set_autocommit",
               "notifies", "start_query", "exit"}
ExecuteOps == {"commit", "rollback", "set_client_encoding", "start_query",
               "exit"}

ArgsOf(name) ==
    CASE name = "set_client_encoding" -> ServerEncodings
      [] name = "set_autocommit" -> {"true", "false"}
      [] name = "exit" -> {"raised", "clean"}
      [] OTHER -> {"none"}

\* A step in which no call ends
Silent == done' = NoDone

\* A step in which no callback is dispatched and no Notify is built
Quiet == dispatched' = NoDispatch /\ produced' = NoNotify

\* A caller invokes a method that takes the lock: it is now at the lock
Call(p, name, arg) ==
    /\ pc[p] = "idle"
    /\ name \in GuardedOps
    /\ arg \in ArgsOf(name)
    /\ pc' = [pc EXCEPT ![p] = "acquire"]
    /\ op' = [op EXCEPT ![p] = [name |-> name, arg |-> arg]]
    /\ Silent /\ Quiet
    /\ UNCHANGED <<fixed, conn_vars, pgconn_vars, lock, batch>>

\* The lock as it would be if the block were entered without taking it
LockIgnored(p) == TRUE

\* with self.lock / async with self.lock: entered when nobody holds it
LockFree(p) == lock = NoProc

\* The with block as it would be if only a normal exit released the lock
ReleasedOnReturnOnly(p, exc) == IF exc = Returned THEN NoProc ELSE p

\* with self.lock / async with self.lock: the block's exit releases the
\* lock, whether the body returned or raised exc
LockOnExit(p, exc) == NoProc

\* __exit__ / __aexit__, lines 254-259 and 379-384: rollback when the
\* block raised, commit otherwise
CommandOf(o) ==
    IF o.name = "exit"
    THEN IF o.arg = "raised" THEN "rollback" ELSE "commit"
    ELSE o.name

\* __exit__ / __aexit__, lines 254-259 and 379-384: the close that follows
\* is reached when the commit or rollback has returned, and is skipped
\* when it raised
ExitGoesOn(name, exc) == name = "exit" /\ exc = Returned

\* __aexit__, line 384: a coroutine runs without interruption up to its
\* next suspension, so no other task runs between the return of commit or
\* rollback and close; threads interleave there
ClosesAtOnce(v, name, exc) == v = "cooperative" /\ ExitGoesOn(name, exc)

\* The call of p ends: what it was, how it ended, the send_query calls it
\* made and the results its wait returned
Ends(p, exc, sent, results, value) ==
    IF ExitGoesOn(op[p].name, exc) /\ ~ClosesAtOnce(variant, op[p].name, exc)
    THEN /\ pc' = [pc EXCEPT ![p] = "closing"]
         /\ Silent
         /\ UNCHANGED <<op, batch>>
    ELSE /\ pc' = [pc EXCEPT ![p] = "idle"]
         /\ op' = [op EXCEPT ![p] = NoOp]
         /\ batch' = [batch EXCEPT ![p] = <<>>]
         /\ done' = [by |-> p, name |-> op[p].name, arg |-> op[p].arg,
                     exc |-> exc, nsent |-> sent, n |-> Len(results),
                     last |-> IF results = <<>> THEN "none"
                              ELSE Last(results),
                     rv |-> value, st0 |-> status, results |-> results]

\* The handle when the method of p has ended with exc: as the server left
\* it, or finished by the close of __aexit__
HandleAfter(p, exc, ts, enc, cmd) ==
    IF ClosesAtOnce(variant, op[p].name, exc)
    THEN /\ status' = BAD
         /\ transaction_status' = UNKNOWN
         /\ client_encoding' = NoEnc
         /\ inflight' = NoCmd
         /\ released' = finish(status, released)
    ELSE /\ transaction_status' = ts
         /\ client_encoding' = enc
         /\ inflight' = cmd
         /\ UNCHANGED <<status, released>>

\* pgconn.send_query(cmd) followed by the start of wait(execute(pgconn))
SendQuery(p, cmd, arg) ==
    /\ IF HandleAccepts
       THEN /\ inflight' = [cmd |-> cmd, arg |-> arg,
                            ts0 |-> transaction_status]
            /\ transaction_status' = ACTIVE
            /\ pc' = [pc EXCEPT ![p] = "wait"]
            /\ lock' = p
            /\ Silent
            /\ UNCHANGED <<op, batch>>
       ELSE /\ Ends(p, HandleError, 1, <<>>, "none")
            /\ lock' = LockOnExit(p, HandleError)
            /\ UNCHANGED <<inflight, transaction_status>>
    /\ Quiet
    /\ UNCHANGED <<fixed, conn_vars, status, client_encoding, released>>

\* commit / rollback up to the wait, lines 288-305 and 411-426
EnterCommitRollback(p) ==
    /\ pc[p] = "acquire"
    /\ op[p].name \in {"commit", "rollback", "exit"}
    /\ LockFree(p)
    /\ IF CommitRollbackSends(transaction_status)
       THEN SendQuery(p, CommandOf(op[p]), NoEnc)
       ELSE /\ Ends(p, Returned, 0, <<>>, "none")
            /\ lock' = LockOnExit(p, Returned)
            /\ HandleAfter(p, Returned, transaction_status, client_encoding,
                           inflight)
            /\ UNCHANGED <<fixed, conn_vars>> /\ Quiet

\* _start_query up to the wait, called by a cursor holding the lock,
\* lines 272-281 and 395-404
EnterStartQuery(p) ==
    /\ pc[p] = "acquire"
    /\ op[p].name = "start_query"
    /\ LockFree(p)
    /\ IF StartQuerySendsBegin(autocommit, transaction_status)
       THEN SendQuery(p, "begin", NoEnc)
       ELSE /\ Ends(p, Returned, 0, <<>>, "none")
            /\ lock' = LockOnExit(p, Returned)
            /\ UNCHANGED <<fixed, conn_vars, pgconn_vars>> /\ Quiet

\* _set_client_encoding / set_client_encoding up to the wait,
\* lines 318-325 and 443-450
EnterSetClientEncoding(p) ==
    /\ pc[p] = "acquire"
    /\ op[p].name = "set_client_encoding"
    /\ LockFree(p)
    /\ SendQuery(p, "set_config", op[p].arg)

\* Connection._set_autocommit / AsyncConnection.set_autocommit,
\* lines 342-344 and 474-476
SetAutocommit(p) ==
    /\ pc[p] = "acquire"
    /\ op[p].name = "set_autocommit"
    /\ LockFree(p)
    /\ LET r == BaseSetAutocommit(transaction_status, autocommit,
                                  op[p].arg = "true")
       IN  /\ autocommit' = r.autocommit
           /\ Ends(p, r.exc, 0, <<>>, "none")
           /\ lock' = LockOnExit(p, r.exc)
    /\ Quiet
    /\ UNCHANGED <<fixed, pgenc, pyenc, notice_handlers, notify_handlers,
                   pgconn_vars>>

\* ------------------------------------------------------ callback dispatch
NoPgn == [relname |-> <<>>, extra |-> <<>>, be_pid |-> 0]

\* What the handle can deliver to its callback slots while a wait reads the
\* socket; with no callback registered a delivery has no effect
Events(raws) ==
    IF notice_handlers = <<>> /\ notify_handlers = <<>>
    THEN {[kind |-> "none", pgn |-> NoPgn]}
    ELSE {[kind |-> "none", pgn |-> NoPgn], [kind |-> "notice", pgn |-> NoPgn]}
         \cup {[kind |-> "notify", pgn |-> g] : g \in PGnotifies(raws)}

\* BaseConnection._notice_handler, lines 170-185
notice_handler(handlers, raising) ==
    LET r == NoticeLoop(handlers, raising)
    IN  [kind |-> "notice", registered |-> handlers, calls |-> r.calls,
         raised |-> r.raised, logged |-> r.logged]

\* The Notify record as built from pgn while the server reports srv
Built(kind, pgn, srv, n) ==
    [kind |-> kind, relname |-> pgn.relname, extra |-> pgn.extra, srv |-> srv,
     exc |-> n.exc, channel |-> n.channel, payload |-> n.payload,
     pid |-> n.pid]

\* The codec the Notify records are decoded with, lines 208-209, 336-337
\* and 460-461: self._pyenc
NotifyCodec(reported, cached_pyenc) == cached_pyenc

\* BaseConnection._notify_handler, lines 199-213: the failure that leaves
\* it, the dispatch and the Notify built
notify_handler(handlers, raising, pgn, enc, srv) ==
    IF handlers = <<>>
    THEN [exc |-> Returned, dispatched |-> NoDispatch, produced |-> NoNotify]
    ELSE LET n == Notify(pgn, enc)
             r == NotifyLoop(handlers, raising)
         IN  IF n.exc # Returned
             THEN [exc |-> n.exc,
                   dispatched |-> [kind |-> "notify", registered |-> handlers,
                                   calls |-> <<>>, raised |-> TRUE,
                                   logged |-> 0],
                   produced |-> Built("handler", pgn, srv, n)]
             ELSE [exc |-> IF r.raised THEN HandlerError ELSE Returned,
                   dispatched |-> [kind |-> "notify", registered |-> handlers,
                                   calls |-> r.calls, raised |-> r.raised,
                                   logged |-> r.logged],
                   produced |-> Built("handler", pgn, srv, n)]

\* The callback slot the handle invokes for a delivery
Callback(ev, srv) ==
    CASE ev.kind = "notice" ->
           LET d == notice_handler(notice_handlers, raisers)
           IN  [exc |-> IF d.raised THEN HandlerError ELSE Returned,
                dispatched |-> d, produced |-> NoNotify]
      [] ev.kind = "notify" ->
           notify_handler(notify_handlers, raisers, ev.pgn,
                          NotifyCodec(srv, pyenc), srv)
      [] OTHER ->
           [exc |-> Returned, dispatched |-> NoDispatch, produced |-> NoNotify]

\* The status check a method makes on the results of its command
CheckOf(name, v, results) ==
    CASE name = "start_query" -> StartQueryCheck(results)
      [] name = "set_client_encoding" -> SetClientEncodingCheck(results)
      [] OTHER -> CommitRollbackCheck(v, results)

\* wait(execute(pgconn)) returns or raises and the method runs to its end:
\* commit, rollback, _start_query, set_client_encoding after the wait
FinishExecute(p, raws) ==
    /\ pc[p] = "wait"
    /\ op[p].name \in ExecuteOps
    /\ IF status # OK
       THEN /\ Ends(p, HandleError, 1, <<>>, "none")
            /\ lock' = LockOnExit(p, HandleError)
            /\ Quiet
            /\ UNCHANGED pgconn_vars
       ELSE \E results \in ResultLists, ev \in Events(raws) :
            \E ts \in ServerStatusAfter(inflight.cmd, inflight.ts0, results) :
               LET enc == ServerEncodingAfter(inflight.cmd, inflight.arg,
                                              results, client_encoding)
                   cb == Callback(ev, enc)
                   chk == CheckOf(op[p].name, variant, results)
               IN  /\ dispatched' = cb.dispatched
                   /\ produced' = cb.produced
                   /\ IF cb.exc # Returned
                      THEN /\ Ends(p, cb.exc, 1, <<>>, "none")
                           /\ lock' = LockOnExit(p, cb.exc)
                           /\ HandleAfter(p, cb.exc, transaction_status, enc,
                                          inflight)
                      ELSE /\ Ends(p, chk, 1, results, "none")
                           /\ lock' = LockOnExit(p, chk)
                           /\ HandleAfter(p, chk, ts, enc, NoCmd)
    /\ UNCHANGED <<fixed, conn_vars>>

\* notifies: with self.lock, up to wait(notifies(pgconn)),
\* lines 331-333 and 455-457
EnterNotifies(p) ==
    /\ pc[p] = "acquire"
    /\ op[p].name = "notifies"
    /\ LockFree(p)
    /\ lock' = p
    /\ pc' = [pc EXCEPT ![p] = "wait"]
    /\ Silent /\ Quiet
    /\ UNCHANGED <<fixed, conn_vars, pgconn_vars, op, batch>>

\* notifies as it would be with the for loop inside the with block
HeldWhileYielding(p) == p

\* notifies, lines 332-334 and 456-458: the with block ends when the wait
\* has returned, before the for loop: the lock's holder during the loop
LockWhileYielding(p) == NoProc

\* notifies: the wait returns one of batches and the lock is released,
\* lines 333-334 and 457-458
FinishNotifiesOf(p, batches) ==
    /\ pc[p] = "wait"
    /\ op[p].name = "notifies"
    /\ IF status # OK
       THEN /\ Ends(p, HandleError, 0, <<>>, "none")
            /\ lock' = LockOnExit(p, HandleError)
       ELSE \E ns \in batches :
               /\ lock' = LockWhileYielding(p)
               /\ batch' = [batch EXCEPT ![p] = ns]
               /\ pc' = [pc EXCEPT ![p] =
                           IF ns = <<>> THEN "acquire" ELSE "yield"]
               /\ Silent
               /\ UNCHANGED op
    /\ UNCHANGED <<fixed, conn_vars, pgconn_vars>> /\ Quiet

FinishNotifies(p, raws) == FinishNotifiesOf(p, Batches(raws))

\* notifies: one record is decoded and yielded, lines 334-340 and 458-464
YieldNotify(p) ==
    /\ pc[p] = "yield"
    /\ LET pgn == Head(batch[p])
           n == Notify(pgn, NotifyCodec(client_encoding, pyenc))
       IN  /\ produced' = Built("stream", pgn, client_encoding, n)
           /\ IF n.exc # Returned
              THEN Ends(p, n.exc, 0, <<>>, "none")
              ELSE /\ batch' = [batch EXCEPT ![p] = Tail(@)]
                   /\ pc' = [pc EXCEPT ![p] =
                               IF Tail(batch[p]) = <<>> THEN "acquire"
                               ELSE "yield"]
                   /\ Silent
                   /\ UNCHANGED op
    /\ dispatched' = NoDispatch
    /\ UNCHANGED <<fixed, conn_vars, pgconn_vars, lock>>

\* The consumer of the notifies stream stops iterating
StopNotifies(p) ==
    /\ pc[p] \in {"acquire", "yield"}
    /\ op[p].name = "notifies"
    /\ Ends(p, Returned, 0, <<>>, "none")
    /\ Quiet
    /\ UNCHANGED <<fixed, conn_vars, pgconn_vars, lock>>

\* A call that takes no lock starts and ends in one step
Direct(p, name, arg, exc, value) ==
    /\ pc[p] = "idle"
    /\ done' = [by |-> p, name |-> name, arg |-> arg, exc |-> exc,
                nsent |-> 0, n |-> 0, last |-> "none", rv |-> value,
                st0 |-> status, results |-> <<>>]
    /\ UNCHANGED <<pc, op, batch>>

\* close, lines 261-263 and 386-387: pgconn.finish()
Close(p) ==
    /\ Direct(p, "close", "none", Returned, "none")
    /\ status' = BAD
    /\ transaction_status' = UNKNOWN
    /\ client_encoding' = NoEnc
    /\ inflight' = NoCmd
    /\ released' = finish(status, released)
    /\ Quiet
    /\ UNCHANGED <<fixed, conn_vars, lock>>

\* __exit__, line 259: self.close() after the commit or rollback has
\* returned; other threads can run in between
ExitClose(p) ==
    /\ pc[p] = "closing"
    /\ pc' = [pc EXCEPT ![p] = "idle"]
    /\ op' = [op EXCEPT ![p] = NoOp]
    /\ done' = [NoDone EXCEPT !.by = p, !.name = "exit", !.arg = op[p].arg,
                              !.st0 = status]
    /\ status' = BAD
    /\ transaction_status' = UNKNOWN
    /\ client_encoding' = NoEnc
    /\ inflight' = NoCmd
    /\ released' = finish(status, released)
    /\ Quiet
    /\ UNCHANGED <<fixed, conn_vars, lock, batch>>

\* cancel as it would be if it took the lock like the other methods
CancelTakesLock(p) == lock = NoProc

\* cancel, lines 160-162: no lock is taken, it runs whoever holds it
CancelReady(p) == TRUE

\* get_cancel() and Cancel.cancel(): on a connected handle the request is
\* issued; what a finished handle answers is not specified
CancelOutcomes(st) == IF st = OK THEN {Returned} ELSE {Returned, HandleError}

\* cancel, lines 160-162: the request goes to the server on a connection
\* of its own and changes nothing of this connection
Cancel(p) ==
    /\ CancelReady(p)
    /\ \E exc \in CancelOutcomes(status) :
           Direct(p, "cancel", "none", exc, "none")
    /\ Quiet
    /\ UNCHANGED <<fixed, conn_vars, pgconn_vars, lock>>

\* A read of the pyenc property, lines 133-146
ReadPyenc(p) ==
    LET r == pyenc_property(client_encoding, pgenc, pyenc)
    IN  /\ Direct(p, "pyenc", "none", r.exc, r.rv)
        /\ pgenc' = r.pgenc
        /\ pyenc' = r.pyenc
        /\ Quiet
        /\ UNCHANGED <<fixed, autocommit, notice_handlers, notify_handlers,
                       pgconn_vars, lock>>

\* The plain setter as it would be without the override of AsyncConnection:
\* the base implementation, run without the lock
NotOverridden(ts, current, value) == BaseSetAutocommit(ts, current, value)

\* AsyncConnection._set_autocommit, lines 466-472: the failure raised and
\* the value of _autocommit afterwards
AsyncSetAutocommit(ts, current, value) ==
    [exc |-> AttributeError, autocommit |-> current]

PropertyOf(name) ==
    IF name = "set_autocommit" THEN "autocommit" ELSE "client_encoding"

\* conn.autocommit = value / conn.client_encoding = value, lines 111-113
\* and 153-155: the setter of Connection takes the lock (342-344, 318-327),
\* the setter of AsyncConnection raises (466-472, 437-441)
AssignProperty(p, name, arg) ==
    /\ name \in {"set_autocommit", "set_client_encoding"}
    /\ arg \in ArgsOf(name)
    /\ IF variant = "blocking"
       THEN Call(p, name, arg)
       ELSE LET r == IF name = "set_autocommit"
                     THEN AsyncSetAutocommit(transaction_status, autocommit,
                                             arg = "true")
                     ELSE [exc |-> AttributeError, autocommit |-> autocommit]
            IN  /\ Direct(p, PropertyOf(name), arg, r.exc, "none")
                /\ autocommit' = r.autocommit
                /\ Quiet
                /\ UNCHANGED <<fixed, pgenc, pyenc, notice_handlers,
                               notify_handlers, pgconn_vars, lock>>

\* The cancellation as it would be if a cancelled command were rolled back
RollbackOnCancel(cmd) == IF cmd = "none" THEN "none" ELSE "rollback"

\* The command a method sends when CancelledError passes through it,
\* lines 411-476: no except or finally clause, none
CleanupOnCancel(cmd) == "none"

\* asyncio cancels a task suspended on the lock or on a wait request: the
\* CancelledError leaves the async with block, the command stays in flight
CancelTask(p) ==
    /\ variant = "cooperative"
    /\ pc[p] \in {"acquire", "wait"}
    /\ Ends(p, CancelledError,
            IF pc[p] = "wait" /\ op[p].name \in ExecuteOps THEN 1 ELSE 0,
            <<>>, "none")
    /\ lock' = IF lock = p THEN LockOnExit(p, CancelledError) ELSE lock
    /\ inflight' = IF CleanupOnCancel(inflight.cmd) = "none" THEN inflight
                   ELSE [inflight EXCEPT !.cmd = CleanupOnCancel(inflight.cmd)]
    /\ UNCHANGED <<fixed, conn_vars, status, transaction_status,
                   client_encoding, released>>
    /\ Quiet

\* list.remove(x): the list without the first x
RECURSIVE list_remove(_, _)
list_remove(l, x) ==
    IF l = <<>> THEN <<>>
    ELSE IF Head(l) = x THEN Tail(l)
    ELSE <<Head(l)>> \o list_remove(Tail(l), x)

Contains(l, x) == \E i \in 1..Len(l) : l[i] = x

\* add_notice_handler, lines 164-165
AddNoticeHandler(p, cb) ==
    /\ Len(notice_handlers) < MaxHandlers
    /\ Direct(p, "add_notice_handler", cb, Returned, "none")
    /\ notice_handlers' = Append(notice_handlers, cb)
    /\ Quiet
    /\ UNCHANGED <<fixed, autocommit, pgenc, pyenc, notify_handlers,
                   pgconn_vars, lock>>

\* remove_notice_handler, lines 167-168: list.remove raises ValueError when
\* the callback is not registered
RemoveNoticeHandler(p, cb) ==
    /\ Direct(p, "remove_notice_handler", cb,
              IF Contains(notice_handlers, cb) THEN Returned ELSE ValueError,
              "none")
    /\ notice_handlers' = list_remove(notice_handlers, cb)
    /\ Quiet
    /\ UNCHANGED <<fixed, autocommit, pgenc, pyenc, notify_handlers,
                   pgconn_vars, lock>>

\* add_notify_handler, lines 187-191
AddNotifyHandler(p, cb) ==
    /\ Len(notify_handlers) < MaxHandlers
    /\ Direct(p, "add_notify_handler", cb, Returned, "none")
    /\ notify_handlers' = Append(notify_handlers, cb)
    /\ Quiet
    /\ UNCHANGED <<fixed, autocommit, pgenc, pyenc, notice_handlers,
                   pgconn_vars, lock>>

\* remove_notify_handler, lines 193-197
RemoveNotifyHandler(p, cb) ==
    /\ Direct(p, "remove_notify_handler", cb,
              IF Contains(notify_handlers, cb) THEN Returned ELSE ValueError,
              "none")
    /\ notify_handlers' = list_remove(notify_handlers, cb)
    /\ Quiet
    /\ UNCHANGED <<fixed, autocommit, pgenc, pyenc, notice_handlers,
                   pgconn_vars, lock>>

\* ---------------------------------------------------------- specifications
\* Spec: two callers on one connection with no callback registered
Init == InitConn({{}})

Next ==
    \E p \in Procs :
        \/ ExitClose(p)
        \/ \E name \in GuardedOps : \E arg \in ArgsOf(name) : Call(p, name, arg)
        \/ EnterCommitRollback(p)
        \/ EnterStartQuery(p)
        \/ EnterSetClientEncoding(p)
        \/ SetAutocommit(p)
        \/ FinishExecute(p, RawTexts)
        \/ EnterNotifies(p)
        \/ FinishNotifies(p, RawTexts)
        \/ YieldNotify(p)
        \/ StopNotifies(p)
        \/ Close(p)
        \/ ReadPyenc(p)
        \/ CancelTask(p)
        \/ Cancel(p)
        \/ \E name \in {"set_autocommit", "set_client_encoding"} :
               \E arg \in ArgsOf(name) : AssignProperty(p, name, arg)

Spec == Init /\ [][Next]_vars

\* SpecDispatch: one caller who registers callbacks, some of which raise,
\* and whose waits deliver notices and notifications
InitDispatch == InitConn(SUBSET Handlers) /\ ~autocommit

NextDispatch ==
    \E p \in {"t1"} :
        \/ \E name \in {"commit", "start_query"} : Call(p, name, "none")
        \/ EnterCommitRollback(p)
        \/ EnterStartQuery(p)
        \/ FinishExecute(p, RawTexts)
        \/ \E cb \in Handlers : AddNoticeHandler(p, cb)
        \/ \E cb \in Handlers : RemoveNoticeHandler(p, cb)
        \/ \E cb \in Handlers : AddNotifyHandler(p, cb)
        \/ \E cb \in Handlers : RemoveNotifyHandler(p, cb)

SpecDispatch == InitDispatch /\ [][NextDispatch]_vars

\* SpecNotifies: one caller consumes the notifies stream, with batches of
\* several notifications, while the other commits
NextNotifies ==
    \/ Call("t1", "notifies", "none")
    \/ EnterNotifies("t1")
    \/ FinishNotifiesOf("t1", BatchesUpTo(RawTexts, MaxStream))
    \/ YieldNotify("t1")
    \/ StopNotifies("t1")
    \/ \E name \in {"commit", "start_query"} : Call("t2", name, "none")
    \/ EnterCommitRollback("t2")
    \/ EnterStartQuery("t2")
    \/ FinishExecute("t2", RawTexts)

SpecNotifies == Init /\ [][NextNotifies]_vars

\* ------------------------------------------------------------------ claims
\* The step in which caller p runs the guarded body of the method name
\* (from the lock to the wait, or to the end of the call)
Runs(p, names) ==
    /\ pc[p] = "acquire"
    /\ op[p].name \in names
    /\ pc'[p] # "acquire"
    /\ done'.exc # CancelledError

\* The step in which the wait of caller p in one of the methods names
\* returns or raises and the call ends
Completes(p, names) ==
    /\ pc[p] = "wait"
    /\ op[p].name \in names
    /\ pc'[p] = "idle"
    /\ done'.exc # CancelledError

\* The step in which caller p calls send_query or send_query_params
Sends(p) ==
    /\ pc[p] = "acquire"
    /\ op[p].name \in ExecuteOps
    /\ \/ pc'[p] = "wait"
       \/ done'.by = p /\ done'.nsent = 1

\* Callers between the lock and the end of their wait
InGuard == {p \in Procs : pc[p] = "wait"}

C1_OneInGuard ==
    /\ Cardinality(InGuard) <= 1
    /\ \A p \in InGuard : lock = p

C1_SendsAlone ==
    \A p \in Procs : Sends(p) => \A q \in Procs \ {p} : pc[q] # "wait"

\* C1: on one connection, blocking or cooperative, at most one of commit,
\* rollback, set client encoding, set autocommit and notifies is inside its
\* guarded section at any time, also while it is suspended on a wait, and a
\* caller sends a command only when no other caller is between its send
\* and the end of its wait.
C1_MutualExclusion == []C1_OneInGuard /\ [][C1_SendsAlone]_vars

\* One caller has sent its command and waits, holding the lock, while the
\* other is held at the lock
C1_Witness ==
    \E p, q \in Procs :
        /\ pc[p] = "wait" /\ lock = p /\ inflight.cmd = "commit"
        /\ pc[q] = "acquire" /\ op[q].name = "set_client_encoding"

C2_Step ==
    /\ autocommit' # autocommit =>
           transaction_status = IDLE /\ transaction_status' = IDLE
    /\ \A p \in Procs :
           Runs(p, {"set_autocommit"}) =>
               /\ done'.by = p /\ done'.nsent = 0
               /\ UNCHANGED pgconn_vars
               /\ IF transaction_status # IDLE
                  THEN done'.exc = ProgrammingError /\ autocommit' = autocommit
                  ELSE done'.exc = Returned
                       /\ autocommit' = (op[p].arg = "true")

\* C2: autocommit changes only in a step where the handle reports IDLE; a
\* set-autocommit that runs while the status is not IDLE raises
\* ProgrammingError, sends nothing and leaves autocommit as it was, and one
\* that runs while IDLE sets autocommit to the requested value.
C2_AutocommitOnlyWhenIdle == [][C2_Step]_vars

\* A set-autocommit has just been refused inside a transaction
C2_Witness ==
    /\ done.name = "set_autocommit" /\ done.exc = ProgrammingError
    /\ transaction_status = INTRANS
    /\ (done.arg = "true") # autocommit

C3_Step ==
    \A p \in Procs :
        (Runs(p, {"commit", "rollback"}) /\ transaction_status = IDLE) =>
            /\ done'.by = p /\ done'.exc = Returned /\ done'.nsent = 0
            /\ pc'[p] = "idle"
            /\ lock' = NoProc
            /\ UNCHANGED <<pgconn_vars, autocommit, pgenc, pyenc>>

\* C3: a commit or rollback that runs while the handle reports IDLE, in
\* either variant, sends no command, raises nothing, leaves the transaction
\* status, autocommit and the encoding cache as they were, and leaves the
\* lock free.
C3_IdleCommitIsNoop == [][C3_Step]_vars

\* A rollback has just returned on an idle connection whose encoding cache
\* had been filled
C3_Witness ==
    /\ done.name = "rollback" /\ done.exc = Returned /\ done.nsent = 0
    /\ transaction_status = IDLE /\ lock = NoProc /\ pgenc = "LATIN1"

C4_Step ==
    \A p \in Procs :
        /\ Runs(p, {"start_query"}) =>
              IF ~autocommit /\ transaction_status = IDLE
              THEN /\ Sends(p)
                   /\ pc'[p] = "wait" => inflight'.cmd = "begin"
              ELSE /\ ~Sends(p)
                   /\ done'.by = p /\ done'.exc = Returned /\ done'.nsent = 0
                   /\ UNCHANGED pgconn_vars
        /\ (Completes(p, {"start_query"}) /\ done'.n = 1
                /\ done'.last # COMMAND_OK) =>
              done'.exc = OperationalError

\* C4: _start_query sends begin if and only if autocommit is false and the
\* handle reports IDLE when it runs; in every other case it sends nothing
\* and returns; when begin was sent and its result is not COMMAND_OK it
\* raises OperationalError.
C4_BeginIffIdleAndNotAutocommit == [][C4_Step]_vars

\* The begin sent by _start_query has just failed
C4_Witness ==
    /\ done.name = "start_query" /\ done.exc = OperationalError
    /\ done.nsent = 1 /\ done.n = 1 /\ done.last = FATAL_ERROR

C5_Step ==
    \A p \in Procs :
        /\ (Runs(p, {"commit", "rollback"}) /\ transaction_status # IDLE) =>
              /\ Sends(p)
              /\ pc'[p] = "wait" => inflight'.cmd = op[p].name
        /\ (Completes(p, {"commit", "rollback"}) /\ done'.n >= 1) =>
              /\ done'.nsent = 1
              /\ inflight' = NoCmd
              /\ IF done'.last = COMMAND_OK
                 THEN done'.exc = Returned /\ transaction_status' = IDLE
                 ELSE done'.exc = OperationalError

\* C5: a commit or rollback that runs while the status is not IDLE sends
\* its one command and waits for it; when the last result is COMMAND_OK the
\* call raises nothing and the status is IDLE again, when it is not the
\* call raises OperationalError; no further command is sent and the status
\* afterwards is the one the server reports.
C5_CommitOutcome == [][C5_Step]_vars

C6_Step ==
    \A p \in Procs :
        (Runs(p, {"commit", "rollback", "set_client_encoding", "start_query",
                  "notifies"}) /\ status = BAD) =>
            /\ pc'[p] = "idle"
            /\ done'.by = p
            /\ done'.exc # Returned
            /\ done'.nsent = 0

\* C6: once the connection status is BAD, commit, rollback, set client
\* encoding, _start_query and notifies fail with an error without calling
\* send_query on the handle and without waiting on it.
C6_FailFastOnceBad == [][C6_Step]_vars

Raising(handlers) ==
    Cardinality({i \in 1..Len(handlers) : handlers[i] \in raisers})

\* C7: a delivered notice invokes every registered notice handler once per
\* registration, in registration order, whichever of them raise; a failure
\* of one is logged, does not stop the later ones and does not reach the
\* call whose wait triggered the dispatch.
C7_NoticeDispatchIsolated ==
    dispatched.kind = "notice" =>
        /\ dispatched.calls = notice_handlers
        /\ ~dispatched.raised
        /\ dispatched.logged = Raising(notice_handlers)
        /\ done.exc # HandlerError
        /\ done.n >= 1

\* A notice has been dispatched to [A, B] where A raises and B does not
C7_Witness ==
    /\ dispatched.kind = "notice"
    /\ notice_handlers = <<"A", "B">>
    /\ raisers = {"A"}
    /\ dispatched.calls = <<"A", "B">>
    /\ done.name = "commit" /\ done.exc = Returned

\* C8: a delivered notification invokes every registered notify handler in
\* registration order even when an earlier one raises, and the failure
\* does not reach the call whose wait triggered the dispatch.
C8_NotifyDispatchIsolated ==
    (dispatched.kind = "notify" /\ produced.exc = Returned) =>
        /\ dispatched.calls = notify_handlers
        /\ ~dispatched.raised
        /\ done.exc # HandlerError

\* C9: every Notify built, by the handler dispatch or by the notifies
\* stream, carries the channel and payload decoded with the codec of the
\* client_encoding the server reports at that moment, and the sender's pid
\* unchanged.
C9_DecodedWithReportedEncoding ==
    (produced.kind # "none" /\ produced.srv \in DOMAIN py_codecs) =>
        LET n == Notify([relname |-> produced.relname,
                         extra |-> produced.extra, be_pid |-> 123],
                        py_codecs[produced.srv])
        IN  /\ produced.exc = n.exc
            /\ produced.channel = n.channel
            /\ produced.payload = n.payload
            /\ produced.pid = n.pid

\* The set of client_encoding by caller p has just been accepted by the
\* server, for an encoding that has no codec
SetToUnsupported(p) ==
    /\ Completes(p, {"set_client_encoding"})
    /\ done'.n = 1 /\ done'.last = TUPLES_OK
    /\ op[p].arg \notin DOMAIN py_codecs
    /\ client_encoding' = op[p].arg

C10_OriginalStep ==
    \A p \in Procs :
        SetToUnsupported(p) =>
            done'.exc = NotSupportedError /\ UNCHANGED <<pgenc, pyenc>>

\* C10 as stated: setting the client encoding to a value the server then
\* reports and that has no codec raises NotSupportedError from the set
\* operation and leaves the cached codec in place.
C10_SetRaisesNotSupported == [][C10_OriginalStep]_vars

C10_Step ==
    /\ \A p \in Procs :
           SetToUnsupported(p) =>
               done'.exc = Returned /\ UNCHANGED <<pgenc, pyenc>>
    /\ (done'.name = "pyenc" /\ client_encoding # NoEnc
            /\ client_encoding \notin DOMAIN py_codecs) =>
           done'.exc = NotSupportedError /\ UNCHANGED <<pgenc, pyenc>>

\* C10 amended: setting the client encoding to a value the server then
\* reports and that has no codec returns without failure; the
\* NotSupportedError is raised by the next read of pyenc; the set and the
\* failing read both leave the cached encoding name and codec in place.
C10_ReadRaisesNotSupported == [][C10_Step]_vars

\* After the encoding was set to EUC_TW a read of pyenc has failed, and the
\* codec cached before is still there
C10_Witness ==
    /\ done.name = "pyenc" /\ done.exc = NotSupportedError
    /\ client_encoding = "EUC_TW"
    /\ pgenc = "LATIN1" /\ pyenc = "iso8859-1"

C11_Step ==
    done'.name = "pyenc" =>
        /\ client_encoding = pgenc => UNCHANGED <<pgenc, pyenc>>
        /\ IF client_encoding = NoEnc
           THEN done'.exc = Returned /\ done'.rv = "utf-8"
           ELSE IF client_encoding \in DOMAIN py_codecs
                THEN done'.exc = Returned
                     /\ done'.rv = py_codecs[client_encoding]
                ELSE done'.exc = NotSupportedError
                     /\ UNCHANGED <<pgenc, pyenc>>

\* C11: every read of pyenc returns the codec of the client_encoding the
\* server reports at that read (utf-8 when none is reported) or raises
\* NotSupportedError when that encoding has no codec; the cache changes
\* only when the reported value differs from the cached one, and a failing
\* read changes neither the cached name nor the cached codec.
C11_EncodingCache == [][C11_Step]_vars

C12_Released == released <= 1 /\ (status = BAD <=> released = 1)

C12_Step ==
    done'.name = "close" =>
        /\ done'.exc = Returned
        /\ status' = BAD
        /\ status = BAD =>
               UNCHANGED <<conn_vars, pgconn_vars, lock, proc_vars>>

\* C12: in both variants a close of an already closed connection raises
\* nothing and leaves the status BAD, autocommit, the handler registries
\* and the encoding cache as the first close left them; the handle's
\* connection is released once.
C12_CloseIdempotent == []C12_Released /\ [][C12_Step]_vars

\* A close has just returned on a connection that was already closed, with
\* the encoding cache filled and autocommit set
C12_Witness ==
    /\ done.name = "close" /\ done.exc = Returned /\ done.st0 = BAD
    /\ status = BAD /\ released = 1
    /\ pgenc = "LATIN1" /\ pyenc = "iso8859-1" /\ autocommit

C13_Step ==
    \A p \in Procs :
        /\ Sends(p) => lock = NoProc /\ (pc'[p] = "wait" => lock' = p)
        /\ (pc[p] = "acquire" /\ pc'[p] = "wait") => lock' = p
        /\ (done'.by = p /\ done'.name = "close") =>
               /\ lock = NoProc
               /\ \A q \in Procs : pc[q] # "wait"

\* C13: a caller that sends a command or waits for notifications holds the
\* lock, and a caller that finishes the handle in close holds it too: close
\* never finishes the handle while another caller is between its send and
\* the end of its wait.
C13_GuardHeldWhenActing == [][C13_Step]_vars

C14_Yielding ==
    \A p \in Procs : pc[p] = "yield" => lock # p /\ batch[p] # <<>>

C14_Step ==
    \A p \in Procs :
        op[p].name = "notifies" =>
            /\ (pc[p] = "acquire" /\ pc'[p] = "wait") =>
                   lock = NoProc /\ lock' = p /\ batch[p] = <<>>
            /\ (pc[p] = "wait" /\ pc'[p] \in {"acquire", "yield"}) =>
                   /\ lock = p /\ lock' = NoProc
                   /\ pc'[p] = "yield" <=> batch'[p] # <<>>
            /\ (pc[p] = "yield"
                    /\ (pc'[p] # pc[p] \/ batch'[p] # batch[p])) =>
                   /\ lock # p /\ lock' # p
                   /\ pc'[p] \in {"acquire", "yield"} =>
                          /\ produced'.kind = "stream"
                          /\ produced'.exc = Returned
                          /\ produced'.relname = Head(batch[p]).relname
                          /\ produced'.extra = Head(batch[p]).extra
                          /\ batch'[p] = Tail(batch[p])
                          /\ pc'[p] = "acquire" <=> batch'[p] = <<>>
            /\ (done'.by = p /\ done'.exc = Returned) =>
                   pc[p] \in {"acquire", "yield"}

\* C14: notifies works in rounds: it takes the lock, waits for one batch,
\* releases the lock and only then yields the records of the batch in the
\* order they came, taking the lock again only when the batch is used up;
\* the lock is never held by the generator while a record is yielded, so
\* another caller can take it meanwhile; the generator never returns of
\* its own.
C14_NotifiesRounds == []C14_Yielding /\ [][C14_Step]_vars

\* The first record of a batch of two has just been yielded and the second
\* is still to come, while the other caller has taken the lock and waits
\* for its commit
C14_Witness ==
    \E p, q \in Procs :
        /\ pc[p] = "yield" /\ Len(batch[p]) = 1
        /\ produced.kind = "stream" /\ produced.exc = Returned
        /\ produced.extra # batch[p][1].extra
        /\ lock = q /\ pc[q] = "wait" /\ op[q].name = "commit"

C15_Step ==
    \A p \in Procs :
        (done'.by = p /\ done'.exc = CancelledError) =>
            /\ variant = "cooperative"
            /\ pc[p] \in {"acquire", "wait"}
            /\ pc'[p] = "idle" /\ op'[p] = NoOp
            /\ lock' # p
            /\ done'.nsent =
                   IF pc[p] = "wait" /\ op[p].name \in ExecuteOps THEN 1 ELSE 0
            /\ UNCHANGED <<autocommit, pgconn_vars>>

\* C15: a cooperative task cancelled while it is suspended on the lock or
\* on a wait inside commit, rollback, set_client_encoding, set_autocommit
\* or notifies leaves the method at once: it sends no further command,
\* autocommit is unchanged and the handle, with the transaction status it
\* reports, is left as it was.
C15_CancelAbandons == [][C15_Step]_vars

\* A commit sent inside a transaction has just been cancelled in its wait:
\* the command is still in flight and the lock is free
C15_Witness ==
    /\ done.name = "commit" /\ done.exc = CancelledError /\ done.nsent = 1
    /\ inflight.cmd = "commit" /\ inflight.ts0 = INTRANS
    /\ transaction_status = ACTIVE /\ lock = NoProc

C16_Step ==
    /\ \A p \in Procs :
           (done'.by = p /\ done'.name \in {"autocommit", "client_encoding"}) =>
               /\ variant = "cooperative"
               /\ done'.exc = AttributeError /\ done'.nsent = 0
               /\ UNCHANGED <<conn_vars, pgconn_vars, lock, proc_vars>>
    /\ (variant = "cooperative" /\ autocommit' # autocommit) =>
           \E p \in Procs :
               /\ pc[p] = "acquire" /\ op[p].name = "set_autocommit"
               /\ lock = NoProc /\ transaction_status = IDLE
               /\ done'.by = p /\ done'.name = "set_autocommit"
               /\ done'.exc = Returned

\* C16: on a cooperative connection an assignment to the plain autocommit
\* or client_encoding property raises AttributeError at once, whatever the
\* transaction status and whoever holds the lock, sends nothing and leaves
\* autocommit and the encoding cache alone; autocommit changes only in
\* set_autocommit, which checks for IDLE and assigns as the lock's holder.
C16_PlainSettersFail == [][C16_Step]_vars

\* An assignment to autocommit has just failed on an idle cooperative
\* connection while another task holds the lock
C16_Witness ==
    /\ variant = "cooperative"
    /\ done.name = "autocommit" /\ done.exc = AttributeError
    /\ transaction_status = IDLE /\ lock \in Procs \ {done.by}
    /\ (done.arg = "true") # autocommit

C17_Callable == \A p \in Procs : pc[p] = "idle" => ENABLED Cancel(p)

C17_Step ==
    \A p \in Procs :
        (done'.by = p /\ done'.name = "cancel") =>
            /\ status = OK => done'.exc = Returned
            /\ UNCHANGED <<lock, conn_vars, pgconn_vars, proc_vars>>

\* C17: cancel does not take the lock: a caller can run it in every state,
\* also while another caller holds the lock and waits inside commit,
\* rollback, set client encoding or notifies; on a connected handle it
\* issues its request and returns, and it changes neither the lock's
\* holder nor autocommit.
C17_CancelIgnoresLock == []C17_Callable /\ [][C17_Step]_vars

\* A cancel has just returned while the other caller holds the lock and
\* waits for its commit
C17_Witness ==
    \E q \in Procs \ {done.by} :
        /\ done.name = "cancel" /\ done.exc = Returned
        /\ lock = q /\ pc[q] = "wait" /\ op[q].name = "commit"
        /\ inflight.cmd = "commit"

OtherVariant(v) == IF v = "blocking" THEN "cooperative" ELSE "blocking"

C18_Step ==
    \A p \in Procs :
        /\ Runs(p, ExecuteOps) => UNCHANGED autocommit
        /\ (Completes(p, ExecuteOps) /\ done'.results # <<>>) =>
               /\ done'.exc =
                      CheckOf(done'.name, OtherVariant(variant), done'.results)
               /\ UNCHANGED autocommit

\* C18: from the same state and with the same results from the handle, of
\* any length from 1, commit, rollback, _start_query and set client
\* encoding end in the blocking and in the cooperative connection the same
\* way: the outcome of a call is the one the other variant gives for the
\* same results, and autocommit is as before.
C18_VariantsAgree == [][C18_Step]_vars

C19_HeldInside ==
    /\ lock # NoProc => pc[lock] = "wait"
    /\ \A p \in Procs : pc[p] = "acquire" => lock # p

C19_Step ==
    \A p \in Procs :
        (done'.by = p /\ done'.name \in GuardedOps) =>
            /\ lock' # p
            /\ lock \in {p, NoProc} => lock' = NoProc

\* C19: the lock is held only while its holder is inside the guarded
\* section of a method; when commit, rollback, set client encoding, set
\* autocommit, _start_query or a round of notifies ends, by return, by an
\* operational or programming failure, by a failure from the wait or by
\* cancellation, the caller no longer holds the lock; no caller asks for
\* the lock while holding it.
C19_GuardReleased == []C19_HeldInside /\ [][C19_Step]_vars

\* A commit has just ended by a failure raised from its wait (the handle
\* was finished meanwhile) and the lock is free; the other caller is about
\* to take it
C19_Witness ==
    \E q \in Procs \ {done.by} :
        /\ done.name = "commit" /\ done.exc = HandleError /\ done.nsent = 1
        /\ lock = NoProc
        /\ pc[q] = "acquire"

C20_Step ==
    \A p \in Procs :
        /\ (Runs(p, {"exit"}) /\ transaction_status = IDLE) =>
               /\ ~Sends(p)
               /\ \/ pc'[p] = "closing"
                  \/ done'.by = p /\ done'.exc = Returned /\ status' = BAD
        /\ (Runs(p, {"exit"}) /\ pc'[p] = "wait") =>
               inflight'.cmd =
                   IF op[p].arg = "raised" THEN "rollback" ELSE "commit"
        /\ (done'.by = p /\ done'.name = "exit"
                /\ done'.exc # CancelledError) =>
               status' = BAD

\* C20: leaving the context block, in either variant, rolls back when the
\* block raised and commits otherwise, sending nothing when the status is
\* IDLE, and then closes the connection: when the exit has completed, also
\* by an operational failure of that commit or rollback, the handle has
\* been finished and the status is BAD.
C20_ExitCloses == [][C20_Step]_vars

====
